---- MODULE Spec2Model ----
(***************************************************************************)
(* A model of the offchain-sdk transactor: the request queue, the dispatch *)
(* loop (mainLoop / retrieveBatch / fire), the Noncer, the preconfirmed    *)
(* state map, and the collaborators the loop drives (factory, sender,      *)
(* tracker, dispatcher, chain).                                            *)
(***************************************************************************)
EXTENDS Integers, Sequences, FiniteSets, TLC

\* ------------------------------------------------------------------ bounds
\* Number of requests clients may push over a behaviour.
MaxRequests == 2
\* Number of SendTxRequest calls that may be rejected over a behaviour.
MaxRejects == 1
\* Number of batches retrieveBatch hands to mainLoop in NonceSpec.
MaxBatches == 3
\* cfg.TxBatchSize of the run.
TxBatchSize == 2
\* The account's confirmed nonce when the process starts.
StartNonce == 1
\* Number of requests already in the queue when the process starts in BatchSpec.
MaxQueued == 3
\* The nonces and the fee levels PolicySpec draws the Noncer's state and the failed
\* transaction from.
PolicyMinNonce == 9
PolicyMaxNonce == 12
MaxFee == 1

\* Retry depth of the sender's replacement recursion.
MaxRetries == 3

NoNonce == -1

\* ----------------------------------------------------------------- state
VARIABLES
    UseQueueMessageID,    \* cfg.UseQueueMessageID
    WaitFullBatchTimeout, \* cfg.WaitFullBatchTimeout
    cancelled,            \* ctx.Done() is closed
    requests,             \* t.requests: the queue, oldest first
    pushed,               \* number of requests pushed so far (names the next one)
    rejects,              \* number of SendTxRequest calls that returned an error
    marking,              \* message IDs of SendTxRequest calls between Push and markState
    preconfirmedStates,   \* t.preconfirmedStates (an absent key reads Unknown)
    mainPc,               \* position of mainLoop
    batch,                \* retrieveBatch's local `requests`
    pulled,               \* history: the returned IDs of the requests pulled, in pull order
    timer,                \* retrieveBatch's timer
    senderMu,             \* t.senderMu is held
    fires,                \* the running fire goroutines
    acquired,             \* n.acquired
    inFlight,             \* n.inFlight: nonce -> InFlightTx (its message IDs)
    latestConfirmedNonce, \* n.latestConfirmedNonce
    refreshPc,            \* position of RefreshLoop
    refreshTimer,         \* RefreshLoop's timer
    chainNonce,           \* chain: NonceAt(sender), the next nonce to be mined
    mempool,              \* chain: pending nonce -> fee level of the pending tx
    tracked,              \* tracker: the registrations being monitored
    events,               \* dispatcher: responses not yet delivered to the transactor's subscription
    cleared,              \* history: message IDs removeStateTracking has cleared
    mu,                   \* n.mu: the Noncer method that holds it, or "free"
    call                  \* a call of the replacement policy: its arguments and its result

vars == <<UseQueueMessageID, WaitFullBatchTimeout, cancelled, requests, pushed, rejects,
          marking, preconfirmedStates, mainPc, batch, pulled, timer, senderMu, fires,
          acquired, inFlight, latestConfirmedNonce, refreshPc, refreshTimer,
          chainNonce, mempool, tracked, events, cleared, mu, call>>

cfgVars == <<UseQueueMessageID, WaitFullBatchTimeout>>
queueVars == <<requests, pushed, rejects, marking>>
loopVars == <<mainPc, batch, pulled, timer>>
noncerVars == <<acquired, inFlight, latestConfirmedNonce>>
refreshVars == <<refreshPc, refreshTimer>>
chainVars == <<chainNonce, mempool>>
apiVars == <<mu, call>>

\* ------------------------------------------------------------- helpers
Max(S) == CHOOSE x \in S : \A y \in S : y <= x
Min(S) == CHOOSE x \in S : \A y \in S : x <= y
Range(s) == {s[i] : i \in DOMAIN s}
Without(f, k) == [x \in (DOMAIN f) \ {k} |-> f[x]]
With(f, k, v) == [x \in (DOMAIN f) \cup {k} |-> IF x = k THEN v ELSE f[x]]

\* Message IDs: the k-th pushed request carries the client's MsgID k and gets the
\* queue's ID QueueID(k).
ClientID(k) == k
QueueID(k) == 0 - k
MaxID == Max({MaxRequests, MaxBatches, MaxQueued})
MsgIDs == {ClientID(k) : k \in 1..MaxID} \cup {QueueID(k) : k \in 1..MaxID}
\* The nonces a behaviour can reach.
Nonces == 0..(StartNonce + MaxID + 1)

\* types.PreconfirmedState, in the order of its values.
StateUnknown == "Unknown"
StateQueued == "Queued"
StateBuilding == "Building"
StateSending == "Sending"
StateInFlight == "InFlight"

\* ---------------------------------------------------- preconfirmed states
\* TxrV2.markState
markState(states, state, msgIDs) ==
    [m \in MsgIDs |-> IF m \in Range(msgIDs) THEN state ELSE states[m]]

\* TxrV2.removeStateTracking
removeStateTracking(states, msgIDs) ==
    [m \in MsgIDs |-> IF m \in Range(msgIDs) THEN StateUnknown ELSE states[m]]

\* TxrV2.GetPreconfirmedState
GetPreconfirmedState(msgID) == preconfirmedStates[msgID]

\* ----------------------------------------------------------------- chain
\* PendingNonceAt: the confirmed nonce plus the run of pending nonces that follows it.
RECURSIVE PendingFrom(_, _)
PendingFrom(n, pool) == IF n \in DOMAIN pool THEN PendingFrom(n + 1, pool) ELSE n
PendingNonceAt == PendingFrom(chainNonce, mempool)

\* NonceAt(sender, nil)
NonceAt == chainNonce

\* ---------------------------------------------------------------- Noncer
\* The gap scan of Acquire: the first i in i..hi that is no key of inFlight.
RECURSIVE ScanGap(_, _, _)
ScanGap(i, hi, keys) ==
    IF i > hi THEN NoNonce
    ELSE IF i \notin keys THEN i
    ELSE ScanGap(i + 1, hi, keys)

\* Acquire handing out the highest in-flight nonce itself when it finds no gap.
AcquireNonceBack(latest, keys, pending) ==
    IF keys # {}
    THEN LET back == Max(keys)
             gap == ScanGap(latest, back, keys)
         IN  IF gap # NoNonce THEN gap ELSE back
    ELSE pending

\* Acquire without its gap scan: always one past the highest in-flight nonce.
AcquireNonceNoScan(latest, keys, pending) ==
    IF keys # {} THEN Max(keys) + 1 ELSE pending

\* Noncer.Acquire, the nonce it returns: keys are inFlight's, pending is what
\* PendingNonceAt answers when inFlight is empty.
AcquireNonce(latest, keys, pending) ==
    IF keys # {}
    THEN LET back == Max(keys)
             gap == ScanGap(latest, back, keys)
         IN  IF gap # NoNonce THEN gap ELSE back + 1
    ELSE pending

\* SetInFlight leaving the nonce in acquired.
SetInFlightAcquiredKept(acq, nonce) == acq

\* Noncer.SetInFlight
SetInFlightAcquired(acq, nonce) == acq \ {nonce}
SetInFlightMap(inf, nonce, tx) == With(inf, nonce, tx)

\* Noncer.RemoveInFlight
RemoveInFlight(inf, nonce) == Without(inf, nonce)

\* GetNextNonce(cur): a fresh nonce by Acquire's algorithm, and whether it is cur again.
GetNextNonce(cur, latest, keys, pending) ==
    LET n == AcquireNonce(latest, keys, pending) IN <<n, n = cur>>

\* ---------------------------------------------------------------- sender
ErrNonceTooLow == "nonce too low"
ErrReplaceUnderpriced == "replacement transaction underpriced"
\* An error that is no core.ErrNonceTooLow but carries its text, and an error the
\* policy knows nothing of.
ErrWrappedNonceTooLow == "rpc error: nonce too low: next nonce 11, tx nonce 10"
ErrInsufficientFunds == "insufficient funds for gas * price + value"

\* GetNew's two tests of err: errors.Is or strings.Contains; a nil error ("") passes
\* neither.
IsNonceTooLow(err) == err \in {ErrNonceTooLow, ErrWrappedNonceTooLow}
IsReplaceUnderpriced(err) == err = ErrReplaceUnderpriced

\* sender.SetNonce and sender.BumpGas on a transaction [nonce, fee]; fee counts
\* the 15% bumps applied to the tip and fee caps.
SetNonce(tx, nonce) == [tx EXCEPT !.nonce = nonce]
BumpGas(tx) == [tx EXCEPT !.fee = @ + 1]

\* GetNew never replacing the nonce: a gas bump is all it does.
GetNewKeepsNonce(tx, err, next) ==
    IF (IsNonceTooLow(err) /\ next[2]) \/ IsReplaceUnderpriced(err) THEN BumpGas(tx) ELSE tx

\* DefaultTxReplacementPolicy.GetNew; next is what GetNextNonce(tx.Nonce()) answers.
GetNew(tx, err, next) ==
    LET tooLow == IsNonceTooLow(err)
        tx1 == IF tooLow THEN SetNonce(tx, next[1]) ELSE tx
        shouldBumpGas == tooLow /\ next[2]
    IN  IF shouldBumpGas \/ IsReplaceUnderpriced(err) THEN BumpGas(tx1) ELSE tx1

\* The chain's answer to SendTransaction(tx): "" accepts it.
ChainVerdict(tx) ==
    IF tx.nonce < chainNonce THEN ErrNonceTooLow
    ELSE IF tx.nonce \in DOMAIN mempool /\ tx.fee <= mempool[tx.nonce]
         THEN ErrReplaceUnderpriced
    ELSE ""

\* ------------------------------------------------------------------ Init
EmptyMap == [x \in {} |-> 0]

\* No call of the replacement policy is being followed.
NoCall == [tx |-> [nonce |-> NoNonce, fee |-> 0], err |-> "", next |-> <<NoNonce, FALSE>>,
           out |-> [nonce |-> NoNonce, fee |-> 0], pc |-> "idle"]

\* The state after NewTransactor with reqs already in the queue it was given, while
\* the replacement-policy call c is followed.
InitWith(reqs, c) ==
    /\ UseQueueMessageID \in BOOLEAN
    /\ WaitFullBatchTimeout \in BOOLEAN
    /\ cancelled = FALSE
    /\ requests = reqs
    /\ pushed = Len(reqs)
    /\ rejects = 0
    /\ marking = {}
    /\ preconfirmedStates = [m \in MsgIDs |-> StateUnknown]
    /\ mainPc = "select"
    /\ batch = <<>>
    /\ pulled = <<>>
    /\ timer = "off"
    /\ senderMu = FALSE
    /\ fires = {}
    /\ acquired = {}
    /\ inFlight = EmptyMap
    /\ latestConfirmedNonce = PendingFrom(StartNonce, [x \in {StartNonce} |-> 0])
    /\ refreshPc = "loop"
    /\ refreshTimer = "running"
    /\ chainNonce = StartNonce
    /\ mempool = [x \in {StartNonce} |-> 0]
    /\ tracked = {}
    /\ events = {}
    /\ cleared = {}
    /\ mu = "free"
    /\ call = c

\* The state after NewTransactor with an empty queue.
Init == InitWith(<<>>, NoCall)

\* --------------------------------------------------------- SendTxRequest
\* SendTxRequest pushing a request whatever Validate said.
CallsPushAlways(valid) == TRUE

\* Validate passed, so Push is called.
CallsPush(valid) == valid

\* SendTxRequest returns an error.
ReturnsError(valid, pushOk) == ~valid \/ ~pushOk

\* The message ID SendTxRequest returns.
ReturnedID(useQueueID, msgID, queueID) == IF useQueueID THEN queueID ELSE msgID

\* SendTxRequest up to its return or its markState call: Validate, Push.
SendTxRequest ==
    \E valid \in BOOLEAN, pushOk \in BOOLEAN :
        LET k == pushed + 1
            enq == CallsPush(valid) /\ pushOk
            err == ReturnsError(valid, pushOk)
        IN  /\ enq => k <= MaxRequests
            /\ err => rejects < MaxRejects
            /\ requests' = IF enq
                           THEN Append(requests, [MsgID |-> ClientID(k), qid |-> QueueID(k)])
                           ELSE requests
            /\ pushed' = IF enq THEN k ELSE pushed
            /\ rejects' = IF err THEN rejects + 1 ELSE rejects
            /\ marking' = IF err THEN marking
                          ELSE marking \cup {ReturnedID(UseQueueMessageID, ClientID(k), QueueID(k))}
            /\ UNCHANGED <<cfgVars, apiVars, cancelled, preconfirmedStates, loopVars, senderMu, fires,
                           noncerVars, refreshVars, chainVars, tracked, events, cleared>>

\* SendTxRequest's last statement: markState(StateQueued, msgID).
MarkQueued ==
    \E m \in marking :
        /\ preconfirmedStates' = markState(preconfirmedStates, StateQueued, <<m>>)
        /\ marking' = marking \ {m}
        /\ UNCHANGED <<cfgVars, apiVars, cancelled, requests, pushed, rejects, loopVars, senderMu,
                       fires, noncerVars, refreshVars, chainVars, tracked, events, cleared>>

\* ------------------------------------------------- mainLoop, retrieveBatch
\* mainLoop starting the goroutine without waiting for senderMu.
CanLockSenderAlways == TRUE

\* senderMu.Lock() may proceed.
CanLockSender == ~senderMu

\* retrieveBatch, the ID a received request is batched under.
BatchedID(useQueueID, reqMsgID, recvID) == IF useQueueID THEN recvID ELSE reqMsgID

\* retrieveBatch putting what it received in front of the batch.
PrependReceived(reqs, k) ==
    [i \in 1..k |-> BatchedID(UseQueueMessageID, requests[i].MsgID, requests[i].qid)] \o reqs

\* retrieveBatch keeping only what the last ReceiveMany returned.
OnlyLastReceived(reqs, k) ==
    [i \in 1..k |-> BatchedID(UseQueueMessageID, requests[i].MsgID, requests[i].qid)]

\* retrieveBatch, `requests` after the loop over the k requests ReceiveMany returned.
AppendReceived(reqs, k) ==
    reqs \o [i \in 1..k |-> BatchedID(UseQueueMessageID, requests[i].MsgID, requests[i].qid)]

\* retrieveBatch asking the queue for TxBatchSize requests whatever it already holds.
txsRemainingOfSize(reqs) == TxBatchSize

\* retrieveBatch, txsRemaining: what the batch still has room for.
txsRemaining(reqs) == TxBatchSize - Len(reqs)

\* retrieveBatch returning a full batch at once whatever the configuration says.
WaitsForTimerNever == FALSE

\* retrieveBatch, with a full batch: whether it waits on timer.C before it returns.
WaitsForTimer == WaitFullBatchTimeout

\* mainLoop and retrieveBatch never looking at ctx.Done().
SeesDoneNever == FALSE

\* Whether mainLoop's and retrieveBatch's select see ctx.Done().
SeesDone == cancelled

\* retrieveBatch returns b to mainLoop: an empty batch sleeps and loops, another
\* goes on to the sender lock.
ReturnBatch(b) ==
    /\ batch' = b
    /\ pulled' = IF Len(b) = 0 THEN <<>> ELSE pulled
    /\ timer' = "off"
    /\ mainPc' = IF Len(b) = 0 THEN "select" ELSE "lock"

\* The top of mainLoop: return on ctx.Done(), else enter retrieveBatch.
MainSelect ==
    /\ mainPc = "select"
    /\ IF SeesDone
       THEN mainPc' = "done" /\ UNCHANGED <<batch, pulled, timer>>
       ELSE mainPc' = "retrieve" /\ batch' = <<>> /\ pulled' = <<>> /\ timer' = "running"
    /\ UNCHANGED <<cfgVars, apiVars, cancelled, queueVars, preconfirmedStates, senderMu, fires,
                   noncerVars, refreshVars, chainVars, tracked, events, cleared>>

\* TxBatchTimeout elapses.
BatchTimerFires ==
    /\ timer = "running"
    /\ timer' = "fired"
    /\ UNCHANGED <<cfgVars, apiVars, cancelled, queueVars, preconfirmedStates, mainPc, batch, pulled,
                   senderMu, fires, noncerVars, refreshVars, chainVars, tracked, events,
                   cleared>>

\* One iteration of retrieveBatch's loop.
RetrieveStep ==
    /\ mainPc = "retrieve"
    /\ \/ /\ SeesDone
          /\ ReturnBatch(<<>>)
          /\ UNCHANGED requests
       \/ /\ timer = "fired"
          /\ ReturnBatch(batch)
          /\ UNCHANGED requests
       \/ /\ ~SeesDone /\ timer # "fired"
          /\ txsRemaining(batch) = 0
          /\ IF WaitsForTimer
             THEN mainPc' = "waitTimer" /\ UNCHANGED <<batch, pulled, timer>>
             ELSE ReturnBatch(batch)
          /\ UNCHANGED requests
       \/ /\ ~SeesDone /\ timer # "fired"
          /\ txsRemaining(batch) # 0
          /\ \E k \in 0..txsRemaining(batch) :
                /\ k <= Len(requests)
                /\ batch' = AppendReceived(batch, k)
                /\ pulled' = pulled \o [i \in 1..k |->
                                 ReturnedID(UseQueueMessageID, requests[i].MsgID, requests[i].qid)]
                /\ requests' = SubSeq(requests, k + 1, Len(requests))
          /\ UNCHANGED <<mainPc, timer>>
    /\ UNCHANGED <<cfgVars, apiVars, cancelled, pushed, rejects, marking, preconfirmedStates, senderMu,
                   fires, noncerVars, refreshVars, chainVars, tracked, events, cleared>>

\* retrieveBatch's `<-timer.C` with a full batch and WaitFullBatchTimeout.
WaitTimer ==
    /\ mainPc = "waitTimer"
    /\ timer = "fired"
    /\ ReturnBatch(batch)
    /\ UNCHANGED <<cfgVars, apiVars, cancelled, queueVars, preconfirmedStates, senderMu, fires,
                   noncerVars, refreshVars, chainVars, tracked, events, cleared>>

\* A fire goroutine as mainLoop starts it.
NewFire(msgIDs, pulledIDs) ==
    [MsgIDs |-> msgIDs, pulled |-> pulledIDs, pc |-> "start",
     tx |-> [nonce |-> NoNonce, fee |-> 0], tries |-> 0]

\* mainLoop takes the sender lock and starts the goroutine that fires the batch.
MainLock ==
    /\ mainPc = "lock"
    /\ CanLockSender
    /\ senderMu' = TRUE
    /\ fires' = fires \cup {NewFire(batch, pulled)}
    /\ mainPc' = "select"
    /\ batch' = <<>>
    /\ pulled' = <<>>
    /\ UNCHANGED <<cfgVars, apiVars, cancelled, queueVars, preconfirmedStates, timer, noncerVars,
                   refreshVars, chainVars, tracked, events, cleared>>

\* ------------------------------------------------------------------ fire
Replace(f, g) == (fires \ {f}) \cup {g}

\* Noncer.Acquire as the factory calls it: the nonce joins acquired.
Acquire(n) ==
    /\ n = AcquireNonce(latestConfirmedNonce, DOMAIN inFlight, PendingNonceAt)
    /\ acquired' = acquired \cup {n}

\* fire: markState(StateBuilding, resp.MsgIDs...)
FireMarkBuilding(f) ==
    /\ f.pc = "start"
    /\ preconfirmedStates' = markState(preconfirmedStates, StateBuilding, f.MsgIDs)
    /\ fires' = Replace(f, [f EXCEPT !.pc = "build"])
    /\ UNCHANGED <<cfgVars, apiVars, cancelled, queueVars, loopVars, senderMu, noncerVars,
                   refreshVars, chainVars, tracked, events, cleared>>

\* fire: factory.BuildTransactionFromRequests. It fails before it acquires a nonce
\* (packing, PendingNonceAt), or after (fee suggestion, signing), or returns the tx.
FireBuild(f) ==
    /\ f.pc = "build"
    /\ \/ /\ fires' = Replace(f, [f EXCEPT !.pc = "failed"])
          /\ UNCHANGED acquired
       \/ \E n \in Nonces, ok \in BOOLEAN :
             /\ Acquire(n)
             /\ fires' = Replace(f, [f EXCEPT !.pc = IF ok THEN "built" ELSE "failed",
                                              !.tx = [nonce |-> n, fee |-> 0]])
    /\ UNCHANGED <<cfgVars, apiVars, cancelled, queueVars, preconfirmedStates, loopVars, senderMu,
                   inFlight, latestConfirmedNonce, refreshVars, chainVars, tracked, events,
                   cleared>>

\* fire: markState(StateSending, resp.MsgIDs...)
FireMarkSending(f) ==
    /\ f.pc = "built"
    /\ preconfirmedStates' = markState(preconfirmedStates, StateSending, f.MsgIDs)
    /\ fires' = Replace(f, [f EXCEPT !.pc = "send"])
    /\ UNCHANGED <<cfgVars, apiVars, cancelled, queueVars, loopVars, senderMu, noncerVars,
                   refreshVars, chainVars, tracked, events, cleared>>

\* sender.SendTransaction, one submission: the chain takes the tx (into the mempool,
\* or dropping it) and the Noncer is told; or the replacement policy makes the next
\* tx to submit; or the error is final.
FireSend(f) ==
    /\ f.pc = "send"
    /\ LET verdict == ChainVerdict(f.tx) IN
       \/ /\ verdict = ""
          /\ acquired' = SetInFlightAcquired(acquired, f.tx.nonce)
          /\ inFlight' = SetInFlightMap(inFlight, f.tx.nonce, f.MsgIDs)
          /\ \/ mempool' = With(mempool, f.tx.nonce, f.tx.fee)
             \/ f.tx.nonce \notin DOMAIN mempool /\ mempool' = mempool
          /\ fires' = Replace(f, [f EXCEPT !.pc = "sent"])
       \/ /\ verdict = ErrNonceTooLow
          /\ f.tries < MaxRetries
          /\ \E n \in Nonces :
                /\ Acquire(n)
                /\ fires' = Replace(f, [f EXCEPT
                       !.tx = GetNew(f.tx, verdict, <<n, n = f.tx.nonce>>),
                       !.tries = @ + 1])
          /\ UNCHANGED <<inFlight, mempool>>
       \/ /\ verdict = ErrReplaceUnderpriced
          /\ f.tries < MaxRetries
          /\ fires' = Replace(f, [f EXCEPT !.tx = GetNew(f.tx, verdict, <<NoNonce, FALSE>>),
                                           !.tries = @ + 1])
          /\ UNCHANGED <<acquired, inFlight, mempool>>
       \/ /\ fires' = Replace(f, [f EXCEPT !.pc = "failed"])
          /\ UNCHANGED <<acquired, inFlight, mempool>>
    /\ UNCHANGED <<cfgVars, apiVars, cancelled, queueVars, preconfirmedStates, loopVars, senderMu,
                   latestConfirmedNonce, refreshVars, chainNonce, tracked, events, cleared>>

\* fire: markState(StateInFlight, ...), tracker.Track; fire returns and the goroutine
\* unlocks senderMu.
FireTrack(f) ==
    /\ f.pc = "sent"
    /\ preconfirmedStates' = markState(preconfirmedStates, StateInFlight, f.MsgIDs)
    /\ tracked' = tracked \cup {[nonce |-> f.tx.nonce, MsgIDs |-> f.MsgIDs, pc |-> "watch"]}
    /\ fires' = fires \ {f}
    /\ senderMu' = FALSE
    /\ UNCHANGED <<cfgVars, apiVars, cancelled, queueVars, loopVars, noncerVars, refreshVars,
                   chainVars, events, cleared>>

\* fire returns with resp.Error set: the deferred Dispatch(resp), then the goroutine
\* unlocks senderMu.
FireFail(f) ==
    /\ f.pc = "failed"
    /\ events' = events \cup {f.MsgIDs}
    /\ fires' = fires \ {f}
    /\ senderMu' = FALSE
    /\ UNCHANGED <<cfgVars, apiVars, cancelled, queueVars, preconfirmedStates, loopVars, noncerVars,
                   refreshVars, chainVars, tracked, cleared>>

\* --------------------------------------------------- tracker, subscription
\* The tracker resolves a registration (receipt, StaleMempool or StaleReceipt) and
\* dispatches the response.
TrackerDispatch(t) ==
    /\ t.pc = "watch"
    /\ events' = events \cup {t.MsgIDs}
    /\ tracked' = (tracked \ {t}) \cup {[t EXCEPT !.pc = "release"]}
    /\ UNCHANGED <<cfgVars, apiVars, cancelled, queueVars, preconfirmedStates, loopVars, senderMu,
                   fires, noncerVars, refreshVars, chainVars, cleared>>

\* The tracker releases the nonce of a resolved registration.
TrackerRelease(t) ==
    /\ t.pc = "release"
    /\ inFlight' = RemoveInFlight(inFlight, t.nonce)
    /\ tracked' = tracked \ {t}
    /\ UNCHANGED <<cfgVars, apiVars, cancelled, queueVars, preconfirmedStates, loopVars, senderMu,
                   fires, acquired, latestConfirmedNonce, refreshVars, chainVars,
                   events, cleared>>

\* The transactor's own subscription gets a response: removeStateTracking(resp.MsgIDs...)
SubscriptionClears(e) ==
    /\ preconfirmedStates' = removeStateTracking(preconfirmedStates, e)
    /\ cleared' = cleared \cup Range(e)
    /\ events' = events \ {e}
    /\ UNCHANGED <<cfgVars, apiVars, cancelled, queueVars, loopVars, senderMu, fires, noncerVars,
                   refreshVars, chainVars, tracked>>

\* ------------------------------------------------------------------ chain
\* The chain mines the pending transaction with the next nonce.
ChainMines ==
    /\ chainNonce \in DOMAIN mempool
    /\ chainNonce' = chainNonce + 1
    /\ mempool' = Without(mempool, chainNonce)
    /\ UNCHANGED <<cfgVars, apiVars, cancelled, queueVars, preconfirmedStates, loopVars, senderMu,
                   fires, noncerVars, refreshVars, tracked, events, cleared>>

\* ------------------------------------------------------------ RefreshLoop
\* Whether RefreshLoop's select sees ctx.Done().
RefreshSeesDone == cancelled

\* The timer RefreshLoop made with time.NewTimer fires.
RefreshTimerFires ==
    /\ refreshPc = "loop"
    /\ refreshTimer = "running"
    /\ refreshTimer' = "fired"
    /\ UNCHANGED <<cfgVars, apiVars, cancelled, queueVars, preconfirmedStates, loopVars, senderMu,
                   fires, noncerVars, refreshPc, chainVars, tracked, events, cleared>>

\* What NonceAt leaves in latestConfirmedNonce: the chain's value, or 0 with an error.
RefreshedNonce(ok) == IF ok THEN NonceAt ELSE 0

\* The timer after RefreshLoop has received from timer.C: it is never Reset.
TimerAfterRefresh == "drained"

\* One pass of RefreshLoop's select.
RefreshStep ==
    /\ refreshPc = "loop"
    /\ \/ /\ RefreshSeesDone
          /\ refreshPc' = "done"
          /\ UNCHANGED <<refreshTimer, latestConfirmedNonce>>
       \/ /\ refreshTimer = "fired"
          /\ refreshTimer' = TimerAfterRefresh
          /\ \E ok \in BOOLEAN : latestConfirmedNonce' = RefreshedNonce(ok)
          /\ UNCHANGED refreshPc
    /\ UNCHANGED <<cfgVars, apiVars, cancelled, queueVars, preconfirmedStates, loopVars, senderMu,
                   fires, acquired, inFlight, chainVars, tracked, events, cleared>>

\* The context is cancelled.
Cancel ==
    /\ ~cancelled
    /\ cancelled' = TRUE
    /\ UNCHANGED <<cfgVars, apiVars, queueVars, preconfirmedStates, loopVars, senderMu, fires,
                   noncerVars, refreshVars, chainVars, tracked, events, cleared>>

\* ----------------------------------------------------------- specification
FireStep == \E f \in fires :
    FireMarkBuilding(f) \/ FireBuild(f) \/ FireMarkSending(f) \/ FireSend(f)
        \/ FireTrack(f) \/ FireFail(f)

TrackerStep == \E t \in tracked : TrackerDispatch(t) \/ TrackerRelease(t)

SubscriptionStep == \E e \in events : SubscriptionClears(e)

MainLoopStep == MainSelect \/ RetrieveStep \/ WaitTimer \/ MainLock

Next ==
    \/ SendTxRequest
    \/ MarkQueued
    \/ MainLoopStep
    \/ BatchTimerFires
    \/ FireStep
    \/ TrackerStep
    \/ SubscriptionStep
    \/ ChainMines
    \/ RefreshTimerFires
    \/ RefreshStep
    \/ Cancel

Spec == Init /\ [][Next]_vars

\* The Noncer under the batches mainLoop fires, the tracker's releases, the chain and
\* the refresh: retrieveBatch hands mainLoop batches of one request.
BatchArrives ==
    /\ mainPc = "select"
    /\ pushed < MaxBatches
    /\ pushed' = pushed + 1
    /\ batch' = <<ClientID(pushed + 1)>>
    /\ pulled' = <<ClientID(pushed + 1)>>
    /\ mainPc' = "lock"
    /\ UNCHANGED <<cfgVars, apiVars, cancelled, requests, rejects, marking, preconfirmedStates, timer,
                   senderMu, fires, noncerVars, refreshVars, chainVars, tracked, events,
                   cleared>>

NonceInit == Init /\ ~UseQueueMessageID /\ ~WaitFullBatchTimeout

NonceNext ==
    \/ BatchArrives
    \/ MainLock
    \/ FireStep
    \/ TrackerStep
    \/ SubscriptionStep
    \/ ChainMines
    \/ RefreshTimerFires
    \/ RefreshStep
    \/ Cancel

NonceSpec == NonceInit /\ [][NonceNext]_vars

\* ------------------------------------------------ the Noncer, call by call
\* The methods of the Noncer that take n.mu.
LockingMethods == {"Acquire", "SetInFlight", "RemoveInFlight"}

\* The pipeline, which NoncerSpec leaves where NewTransactor put it.
pipelineVars == <<cfgVars, queueVars, preconfirmedStates, loopVars, senderMu, fires,
                  tracked, events, cleared, call>>

\* A caller enters one of the locking methods: n.mu.Lock().
NoncerLock ==
    /\ mu = "free"
    /\ mu' \in LockingMethods
    /\ UNCHANGED <<pipelineVars, cancelled, noncerVars, refreshVars, chainVars>>

\* Acquire from its lock to its return: a nonce joins acquired, unless PendingNonceAt
\* failed.
NoncerAcquire ==
    /\ mu = "Acquire"
    /\ \/ \E n \in Nonces : Acquire(n)
       \/ DOMAIN inFlight = {} /\ UNCHANGED acquired
    /\ mu' = "free"
    /\ UNCHANGED <<pipelineVars, cancelled, inFlight, latestConfirmedNonce, refreshVars,
                   chainVars>>

\* SetInFlight(tx) from its lock to its return, for a transaction the chain has just
\* taken (into the mempool, or dropping it): tx has an acquired nonce, or replaces an
\* in-flight transaction.
NoncerSetInFlight ==
    /\ mu = "SetInFlight"
    /\ \E n \in acquired \cup DOMAIN inFlight :
          /\ acquired' = SetInFlightAcquired(acquired, n)
          /\ inFlight' = SetInFlightMap(inFlight, n, <<ClientID(1)>>)
          /\ \/ n >= chainNonce /\ mempool' = With(mempool, n, 0)
             \/ mempool' = mempool
    /\ mu' = "free"
    /\ UNCHANGED <<pipelineVars, cancelled, latestConfirmedNonce, refreshVars, chainNonce>>

\* RemoveInFlight(tx) from its lock to its return.
NoncerRemoveInFlight ==
    /\ mu = "RemoveInFlight"
    /\ \E n \in DOMAIN inFlight : inFlight' = RemoveInFlight(inFlight, n)
    /\ mu' = "free"
    /\ UNCHANGED <<pipelineVars, cancelled, acquired, latestConfirmedNonce, refreshVars,
                   chainVars>>

NoncerInit == Init /\ ~UseQueueMessageID /\ ~WaitFullBatchTimeout

\* The Noncer under any sequence of calls of its methods, with the refresh loop and
\* the chain.
NoncerNext ==
    \/ NoncerLock
    \/ NoncerAcquire
    \/ NoncerSetInFlight
    \/ NoncerRemoveInFlight
    \/ ChainMines
    \/ RefreshTimerFires
    \/ RefreshStep
    \/ Cancel

NoncerSpec == NoncerInit /\ [][NoncerNext]_vars

\* ------------------------------------------------- the replacement policy
\* The errors SendTransaction hands to GetNew.
Errors == {"", ErrNonceTooLow, ErrWrappedNonceTooLow, ErrReplaceUnderpriced,
           ErrInsufficientFunds}
PolicyNonces == PolicyMinNonce..PolicyMaxNonce

\* GetNew(tx, err) is called.
Called(tx, err) == [NoCall EXCEPT !.tx = tx, !.err = err, !.pc = "called"]

\* The sender calls GetNew(tx, err) for a transaction the chain refused, in any state
\* of the Noncer and of the chain: some nonces in flight, latestConfirmedNonce as last
\* refreshed, nothing pending.
PolicyInit ==
    /\ UseQueueMessageID = FALSE
    /\ WaitFullBatchTimeout = FALSE
    /\ cancelled = FALSE
    /\ requests = <<>>
    /\ pushed = 1
    /\ rejects = 0
    /\ marking = {}
    /\ preconfirmedStates = [m \in MsgIDs |-> StateUnknown]
    /\ mainPc = "select"
    /\ batch = <<>>
    /\ pulled = <<>>
    /\ timer = "off"
    /\ senderMu = TRUE
    /\ fires = {}
    /\ acquired = {}
    /\ \E keys \in SUBSET PolicyNonces : inFlight = [n \in keys |-> <<ClientID(1)>>]
    /\ latestConfirmedNonce \in PolicyNonces
    /\ refreshPc = "loop"
    /\ refreshTimer = "drained"
    /\ chainNonce \in PolicyNonces
    /\ mempool = EmptyMap
    /\ tracked = {}
    /\ events = {}
    /\ cleared = {}
    /\ mu = "free"
    /\ \E n \in PolicyNonces, fee \in 0..MaxFee, err \in Errors :
          call = Called([nonce |-> n, fee |-> fee], err)

\* GetNew, its first if: after "nonce too low", GetNextNonce(tx.Nonce()) gets a nonce
\* from the Noncer; shouldBumpGas is what the factory makes of it, either value.
PolicyGetNextNonce ==
    /\ call.pc = "called"
    /\ IsNonceTooLow(call.err)
    /\ \E shouldBumpGas \in BOOLEAN :
          LET next == GetNextNonce(call.tx.nonce, latestConfirmedNonce, DOMAIN inFlight,
                                   PendingNonceAt)
          IN  /\ acquired' = acquired \cup {next[1]}
              /\ call' = [call EXCEPT !.next = <<next[1], shouldBumpGas>>, !.pc = "asked"]
    /\ UNCHANGED <<cfgVars, cancelled, queueVars, preconfirmedStates, loopVars, senderMu,
                   fires, inFlight, latestConfirmedNonce, refreshVars, chainVars, tracked,
                   events, cleared, mu>>

\* GetNew from there to its return.
PolicyGetNew ==
    /\ \/ call.pc = "called" /\ ~IsNonceTooLow(call.err)
       \/ call.pc = "asked"
    /\ call' = [call EXCEPT !.out = GetNew(call.tx, call.err, call.next), !.pc = "returned"]
    /\ UNCHANGED <<cfgVars, cancelled, queueVars, preconfirmedStates, loopVars, senderMu,
                   fires, noncerVars, refreshVars, chainVars, tracked, events, cleared,
                   mu>>

PolicyNext == PolicyGetNextNonce \/ PolicyGetNew

PolicySpec == PolicyInit /\ [][PolicyNext]_vars

\* The requests a queue that outlives the process already holds at start.
QueuedAtStart == [k \in 1..MaxQueued |-> [MsgID |-> ClientID(k), qid |-> QueueID(k)]]

BatchInit == InitWith(QueuedAtStart, NoCall)

\* mainLoop draining a queue that holds more than one batch: retrieveBatch, the timer,
\* the sender lock and the fires, the tracker, the chain and the cancellation.
BatchNext ==
    \/ MainLoopStep
    \/ BatchTimerFires
    \/ FireStep
    \/ TrackerStep
    \/ ChainMines
    \/ Cancel

BatchSpec == BatchInit /\ [][BatchNext]_vars

\* The scheduler runs every goroutine that can take a step, and timers fire.
Fairness ==
    /\ WF_vars(MainLoopStep)
    /\ WF_vars(BatchTimerFires)
    /\ WF_vars(FireStep)
    /\ WF_vars(RefreshTimerFires)
    /\ WF_vars(RefreshStep)

\* The two loops with everything they wait on: the queue, the timers, the sender lock
\* and the fire that holds it, the Noncer, the tracker and the chain. The writers that
\* only touch the preconfirmed state map (MarkQueued, SubscriptionStep) are left out:
\* no guard of a loop or of fire reads what they write.
LiveInit == Init /\ ~UseQueueMessageID

LiveNext ==
    \/ SendTxRequest
    \/ MainLoopStep
    \/ BatchTimerFires
    \/ FireStep
    \/ TrackerStep
    \/ ChainMines
    \/ RefreshTimerFires
    \/ RefreshStep
    \/ Cancel

LiveSpec == LiveInit /\ [][LiveNext]_vars /\ Fairness

\* ================================================================= claims

\* The step in which fire f gets a nonce from the Noncer (Acquire in the factory's
\* build, or in GetNextNonce after "nonce too low"), leaving it as fire g.
GetsNonce(f, g) ==
    /\ g.MsgIDs = f.MsgIDs
    /\ \/ f.pc = "build" /\ g.pc \in {"built", "failed"} /\ g.tx.nonce # NoNonce
       \/ /\ f.pc = "send" /\ g.pc = "send" /\ g.tries = f.tries + 1
          /\ ChainVerdict(f.tx) = ErrNonceTooLow

\* The nonces of the transactions this process submitted and the chain has mined.
Confirmed == {n \in Nonces : StartNonce < n /\ n < chainNonce}

\* C1, nonce uniqueness: no transaction is given, or submitted with, the nonce of a
\* transaction that was already submitted and confirmed (such a transaction can be
\* no replacement): Acquire never hands such a nonce out again.
NonceUniqueness ==
    [][\A f \in fires : \A g \in fires' :
          GetsNonce(f, g) => g.tx.nonce \notin Confirmed]_vars

\* The first nonce of latest..max(keys) that is no key, or max(keys) + 1.
Gaps(latest, keys) == {m \in latest..Max(keys) : m \notin keys}
FirstGapOrNext(latest, keys) ==
    IF Gaps(latest, keys) # {} THEN Min(Gaps(latest, keys)) ELSE Max(keys) + 1

\* C2, gap filling: with inFlight non-empty, Acquire returns the smallest nonce of
\* [latestConfirmedNonce, max(inFlight)] absent from inFlight, or max(inFlight) + 1
\* when there is none; no smaller absent nonce of that range is skipped.
GapFilling ==
    [][\A f \in fires : \A g \in fires' :
          (GetsNonce(f, g) /\ DOMAIN inFlight # {}) =>
              /\ g.tx.nonce = FirstGapOrNext(latestConfirmedNonce, DOMAIN inFlight)
              /\ \A m \in latestConfirmedNonce..Max(DOMAIN inFlight) :
                     (m < g.tx.nonce) => m \in DOMAIN inFlight]_vars

\* A fire holds a nonce below the highest in-flight one: Acquire filled a gap.
GapFilled ==
    \E f \in fires :
        /\ f.pc = "built"
        /\ DOMAIN inFlight # {}
        /\ f.tx.nonce < Max(DOMAIN inFlight)

\* C3, sender serialization: at most one fire is in progress, and it holds senderMu.
SenderSerialization ==
    /\ Cardinality(fires) <= 1
    /\ fires # {} => senderMu

\* A fire is in progress while retrieveBatch already holds requests of the next batch.
FireWhileRetrieving ==
    /\ fires # {}
    /\ mainPc = "retrieve"
    /\ Len(batch) > 0

\* The order of the preconfirmed states of a message.
Rank(state) ==
    CASE state = StateUnknown -> 0
      [] state = StateQueued -> 1
      [] state = StateBuilding -> 2
      [] state = StateSending -> 3
      [] state = StateInFlight -> 4

\* C4: the preconfirmed state of a message never moves backwards in the order
\* Queued, Building, Sending, InFlight; it only advances or is cleared.
StateNeverMovesBack ==
    [][\A m \in MsgIDs :
          \/ Rank(preconfirmedStates'[m]) >= Rank(preconfirmedStates[m])
          \/ preconfirmedStates'[m] = StateUnknown]_vars

\* C5, state map: a message whose preconfirmed state is InFlight is carried by an
\* InFlightTx the Noncer holds.
StateMapInvariant ==
    \A m \in MsgIDs :
        preconfirmedStates[m] = StateInFlight =>
            \E n \in DOMAIN inFlight : m \in Range(inFlight[n])

\* C6, idempotent release: once the terminal dispatch has cleared a message's entry,
\* GetPreconfirmedState returns Unknown for it ever after.
ClearedStaysUnknown ==
    \A m \in cleared : GetPreconfirmedState(m) = StateUnknown

\* C7, batch ordering: the MsgIDs of a fired response are the IDs SendTxRequest
\* returned for the requests pulled for the batch, in the order they were pulled.
BatchOrdering ==
    /\ \A f \in fires : f.MsgIDs = f.pulled
    /\ mainPc \in {"retrieve", "waitTimer", "lock"} => batch = pulled

\* A batch of TxBatchSize requests is being fired under the queue's message IDs.
FullBatchFired ==
    \E f \in fires : Len(f.MsgIDs) = TxBatchSize /\ UseQueueMessageID

\* C8: when fire returns with an error, the response is dispatched, no tracker
\* registration is made for it, and the nonce acquired for it is held by the Noncer
\* neither in acquired nor in inFlight.
ErrorReleasesNonce ==
    [][\A f \in fires :
          (f.pc = "failed" /\ f \notin fires') =>
              /\ f.MsgIDs \in events'
              /\ \A t \in tracked' : t.MsgIDs # f.MsgIDs
              /\ f.tx.nonce # NoNonce =>
                     f.tx.nonce \notin acquired' /\ f.tx.nonce \notin DOMAIN inFlight']_vars

\* C9, validation at ingress: a SendTxRequest that returns an error leaves the queue
\* and the preconfirmed state map as they were, and has no markState to come.
RejectChangesNothing ==
    [][rejects' # rejects =>
          /\ requests' = requests
          /\ preconfirmedStates' = preconfirmedStates
          /\ marking' = marking]_vars

\* A request was rejected while another is in the queue.
RejectedOne == rejects > 0 /\ Len(requests) > 0

\* C10, cancellation: once the context is cancelled, mainLoop and RefreshLoop each
\* eventually return.
Cancellation ==
    /\ cancelled ~> (mainPc = "done")
    /\ cancelled ~> (refreshPc = "done")

\* Both loops have returned after the cancellation, a fired batch behind them.
LoopsReturned ==
    /\ cancelled
    /\ mainPc = "done"
    /\ refreshPc = "done"
    /\ inFlight # EmptyMap

\* A step in which retrieveBatch returns to mainLoop.
RetrieveReturns ==
    /\ mainPc \in {"retrieve", "waitTimer"}
    /\ mainPc' \in {"select", "lock"}

\* C11: a retrieveBatch that returns after the context was cancelled returns an empty
\* batch.
EmptyBatchOnCancel ==
    [][(RetrieveReturns /\ cancelled) => batch' = <<>>]_vars

\* C12, batch size bound: the batch retrieveBatch is filling or has returned, and the
\* batch of every fire, hold at most TxBatchSize requests.
BatchSizeBound ==
    /\ Len(batch) <= TxBatchSize
    /\ \A f \in fires : Len(f.MsgIDs) <= TxBatchSize

\* retrieveBatch has returned a full batch while the queue still holds requests.
FullBatchQueueLeft ==
    /\ mainPc = "lock"
    /\ Len(batch) = TxBatchSize
    /\ Len(requests) > 0

\* C17, batch return policy: retrieveBatch returns before its timer has fired only
\* with a full batch and WaitFullBatchTimeout false, or with the context cancelled; so
\* with WaitFullBatchTimeout true a batch that filled early is returned only once the
\* timer has fired.
BatchReturnPolicy ==
    [][(RetrieveReturns /\ timer # "fired") =>
          \/ cancelled
          \/ Len(batch) = TxBatchSize /\ ~WaitFullBatchTimeout]_vars

\* With WaitFullBatchTimeout, retrieveBatch has returned a full batch to mainLoop.
WaitedFullBatch ==
    /\ WaitFullBatchTimeout
    /\ ~cancelled
    /\ mainPc = "lock"
    /\ Len(batch) = TxBatchSize

\* The scenario of C13: nonce 10 alone is in flight, latestConfirmedNonce is 11, and
\* GetNew has asked for the next nonce after a "nonce too low".
TooLowScenario ==
    /\ call.pc \in {"asked", "returned"}
    /\ IsNonceTooLow(call.err)
    /\ DOMAIN inFlight = {10}
    /\ latestConfirmedNonce = 11

\* C13 as stated: in the scenario the nonce produced for the replacement is 12.
ScenarioGivesTwelve ==
    TooLowScenario => call.next[1] = 12

\* C13, amended: in the scenario the nonce produced for the replacement is 11, one past
\* the highest in-flight nonce (no gap is reported); the replacement carries it, and it
\* is neither in flight nor below latestConfirmedNonce.
ScenarioGivesEleven ==
    TooLowScenario =>
        /\ call.next[1] = 11
        /\ call.next[1] \notin DOMAIN inFlight
        /\ call.next[1] >= latestConfirmedNonce
        /\ call.pc = "returned" => call.out.nonce = 11

\* The scenario's replacement has been made.
ScenarioReplaced ==
    /\ TooLowScenario
    /\ call.pc = "returned"
    /\ call.tx.nonce = 10

\* C18, replacement policy decision: GetNew changes the nonce only for a "nonce too
\* low" error, to the nonce GetNextNonce returned; it bumps gas, once, exactly when
\* GetNextNonce returned shouldBumpGas or the error is "replacement transaction
\* underpriced"; the latter keeps the nonce; any other error leaves the transaction
\* unchanged.
ReplacementDecision ==
    call.pc = "returned" =>
        LET tooLow == IsNonceTooLow(call.err)
            underpriced == IsReplaceUnderpriced(call.err)
        IN  /\ call.out.nonce # call.tx.nonce => tooLow
            /\ tooLow => call.out.nonce = call.next[1]
            /\ (call.out.fee # call.tx.fee) <=> ((tooLow /\ call.next[2]) \/ underpriced)
            /\ call.out.fee \in {call.tx.fee, BumpGas(call.tx).fee}
            /\ underpriced => call.out.nonce = call.tx.nonce
            /\ (~tooLow /\ ~underpriced) => call.out = call.tx

\* GetNew has returned a replacement with a new nonce and a bumped fee.
ReplacedAndBumped ==
    /\ call.pc = "returned"
    /\ call.err = ErrWrappedNonceTooLow
    /\ call.out.nonce # call.tx.nonce
    /\ call.out.fee # call.tx.fee

\* The k-th batch fired in NonceSpec.
BatchOf(k) == <<ClientID(k)>>

\* C14, cross-batch nonce order, where batch k is still in flight when batch k+1 gets
\* its nonce: the nonce batch k was submitted with is less than or equal to the nonce
\* batch k+1 gets.
CrossBatchNonceOrder ==
    [][\A f \in fires : \A g \in fires' : \A n \in DOMAIN inFlight :
          (/\ GetsNonce(f, g)
           /\ \E k \in 1..(MaxBatches - 1) :
                 inFlight[n] = BatchOf(k) /\ f.MsgIDs = BatchOf(k + 1))
              => n <= g.tx.nonce]_vars

\* A step in which RefreshLoop writes latestConfirmedNonce.
RefreshWrites ==
    /\ refreshPc = "loop"
    /\ refreshTimer = "fired"
    /\ refreshTimer' # refreshTimer

\* C16, refresh reclaim: after each refresh of latestConfirmedNonce, every key of
\* inFlight is greater than or equal to latestConfirmedNonce.
RefreshReclaims ==
    [][RefreshWrites => \A n \in DOMAIN inFlight' : n >= latestConfirmedNonce']_vars

\* C15: acquired and inFlight are disjoint in every state of the Noncer.
AcquiredInFlightDisjoint ==
    acquired \cap DOMAIN inFlight = {}

\* The Noncer holds acquired nonces and in-flight ones, one of them released before.
AcquiredBesideInFlight ==
    /\ acquired # {}
    /\ DOMAIN inFlight # {}
    /\ \E n \in acquired : n < Max(DOMAIN inFlight)

\* C19, Noncer locking: each access to the Noncer's state is made under n.mu, so the
\* refresh loop does not write latestConfirmedNonce while Acquire holds n.mu and scans
\* for a gap.
NoncerLocking ==
    [][RefreshWrites => mu # "Acquire"]_vars

\* C20, periodic refresh: while the context is not cancelled, the refresh loop's timer
\* comes due again and again, each time for another update of latestConfirmedNonce.
PeriodicRefresh ==
    (~cancelled) ~> (cancelled \/ refreshTimer = "fired")

\* The number of places of seq that hold id, and of the sequences of a set.
Occurrences(seq, id) == Cardinality({i \in DOMAIN seq : seq[i] = id})
OccurrencesIn(seqs, id) ==
    Cardinality({p \in UNION {{<<q, i>> : i \in DOMAIN q} : q \in seqs} : p[1][p[2]] = id})

\* How many times the k-th request is held: in the queue, in retrieveBatch's batch,
\* by a fire, by a tracker registration not yet dispatched, or by a dispatched response.
TimesHeld(k) ==
    LET id == BatchedID(UseQueueMessageID, ClientID(k), QueueID(k))
    IN  Cardinality({i \in DOMAIN requests : requests[i].MsgID = ClientID(k)})
        + Occurrences(batch, id)
        + OccurrencesIn({f.MsgIDs : f \in fires}, id)
        + OccurrencesIn({t.MsgIDs : t \in {u \in tracked : u.pc = "watch"}}, id)
        + OccurrencesIn(events, id)

\* C21: absent cancellation, every request retrieveBatch receives goes to exactly one
\* fire (each request is held once: still queued, batched, being fired, tracked or
\* dispatched; never nowhere, never twice), and no fire has an empty batch.
ReceivedFiredOnce ==
    ~cancelled =>
        /\ \A k \in 1..pushed : TimesHeld(k) = 1
        /\ \A f \in fires : Len(f.MsgIDs) > 0

\* Without a cancellation the queue has been drained and every batch fired.
AllFired ==
    /\ ~cancelled
    /\ pushed = MaxQueued
    /\ requests = <<>>
    /\ batch = <<>>
    /\ fires = {}
    /\ Cardinality(events) >= 2

\* C22: latestConfirmedNonce never decreases.
ConfirmedNonceNeverDecreases ==
    [][latestConfirmedNonce' >= latestConfirmedNonce]_vars

====
